---- MODULE Spec2Model ----
(***************************************************************************)
(* slackdown: export of a Slack channel's history to Markdown.             *)
(*                                                                         *)
(* The model follows src/slackdown.py.  One run of main() is a walk of pc  *)
(* through get_channel_name, fetch_user_map, fetch_channel_messages,       *)
(* structure_messages, the optional JSON dump, json_to_markdown and the    *)
(* write of the output file.  Every request to the Slack API is one step;  *)
(* the response is chosen by the environment.  The user cache file         *)
(* (~/.slackdown/users.json) outlives a run, so a run can be followed by   *)
(* another one (NewRun).                                                   *)
(*                                                                         *)
(* Python values: a str is a TLA+ string, a text is a sequence of          *)
(* character tokens, a dict is a function, None is the value None below.   *)
(***************************************************************************)
EXTENDS Integers, Sequences, FiniteSets, TLC

----------------------------------------------------------------------------
(* Bounds of the model *)

\* most messages accumulated by one conversations.history listing
MaxMsgs == 2

\* most characters of the short texts json_to_markdown is given
MaxTextLen == 2

----------------------------------------------------------------------------
(* Python values *)

\* Python None / JSON null where a str is expected
None == "<None>"

\* no continuation cursor: next_cursor absent or "" (both falsy)
NoCursor == "<no cursor>"

\* the channel id given on the command line
ChannelId == "C042"

\* text tokens: "x" an ordinary character, "sp" a space, "nl" a newline,
\* "d" a digit, "C" the run of characters "commented on OH-"
Whitespace == {"sp", "nl"}

RECURSIVE lstrip(_)
lstrip(s) == IF s # <<>> /\ Head(s) \in Whitespace THEN lstrip(Tail(s)) ELSE s

RECURSIVE rstrip(_)
rstrip(s) ==
    IF s # <<>> /\ s[Len(s)] \in Whitespace
    THEN rstrip(SubSeq(s, 1, Len(s) - 1))
    ELSE s

\* str.strip()
strip(s) == rstrip(lstrip(s))

\* the list as it is, not reversed
not_reversed(s) == s

RECURSIVE reversed(_)
reversed(s) == IF s = <<>> THEN <<>> ELSE Append(reversed(Tail(s)), Head(s))

\* s[1:]
Slice1(s) == IF s = <<>> THEN <<>> ELSE Tail(s)

----------------------------------------------------------------------------
(* Retry limits *)

users_max_retries == 3
info_max_retries == 3
\* one attempt more than the five
history_max_retries_and_one == 5 + 1
history_max_retries == 5
thread_max_retries == 3

----------------------------------------------------------------------------
(* Responses of the Slack API *)

\* the top of every response: ok, and on failure an error code; a
\* ratelimited response may carry retry_after (0: the key is absent)
Failures ==
    { [ok |-> FALSE, error |-> "ratelimited", retry_after |-> 0],
      [ok |-> FALSE, error |-> "ratelimited", retry_after |-> 2],
      [ok |-> FALSE, error |-> "channel_not_found", retry_after |-> 0] }

\* check_response: "true", "false" (after the sleep), or "raise"
check_response(resp) ==
    IF ~resp.ok
    THEN IF resp.error = "ratelimited" THEN "false" ELSE "raise"
    ELSE "true"

\* resp.get("retry_after") with no default, None taken as no wait
retry_after_or_none(resp) == resp.retry_after

\* the time.sleep of check_response before it returns False:
\* int(resp.get("retry_after", 1)) seconds
retry_after_of(resp) == IF resp.retry_after = 0 THEN 1 ELSE resp.retry_after

\* check_response has not been called, or it found the response not
\* ratelimited
NoThrottle == [limited |-> FALSE, retry_after |-> 0, slept |-> 0]

\* what check_response does before it returns or raises: on a ratelimited
\* response it sleeps, and nothing else runs until time.sleep is over
Throttle(resp) ==
    IF ~resp.ok /\ resp.error = "ratelimited"
    THEN [limited |-> TRUE, retry_after |-> resp.retry_after,
          slept |-> retry_after_of(resp)]
    ELSE NoThrottle

----------------------------------------------------------------------------
(* dict *)

\* {}
EmptyDict == [k \in {} |-> None]

\* d[k] = v
DictSet(d, k, v) == [x \in (DOMAIN d) \cup {k} |-> IF x = k THEN v ELSE d[x]]

\* d.get(k, default), for a dict and for a record
Get(d, k, default) == IF k \in DOMAIN d THEN d[k] ELSE default

----------------------------------------------------------------------------
(* The workspace behind the API *)

\* a key a member or a message does not have
Absent == "<absent>"

\* the thread_ts of a message that has no thread_ts key (every ts is positive)
NoThreadTs == 0

\* members of users.list pages
Members ==
    { [id |-> "U1", real_name |-> Absent, name |-> "alice"],
      [id |-> "U1", real_name |-> Absent, name |-> Absent],
      [id |-> "U2", real_name |-> "Jira Cloud", name |-> "jira"] }

\* the order in which json.dump writes the keys of the users dict
UserIdOrder == <<"U1", "U2">>

UsersResponses ==
    { [ok |-> TRUE, members |-> ms, next_cursor |-> c] :
        ms \in {<<>>} \cup {<<m>> : m \in Members}, c \in {NoCursor, "c1"} }

InfoResponses == { [ok |-> TRUE, name |-> "general"] }

\* text of a Jira comment notification: "x commented on OH-d x"
JiraText == <<"x", "sp", "C", "d", "sp", "x">>

\* raw messages of conversations.history
RawMessages ==
    { [ts |-> 1, user |-> Absent, text |-> <<"sp", "x", "nl">>,
       subtype |-> Absent, thread_ts |-> NoThreadTs],
      [ts |-> 2, user |-> "U2", text |-> <<"nl">> \o JiraText \o <<"sp">>,
       subtype |-> Absent, thread_ts |-> 2],
      [ts |-> 3, user |-> "U1", text |-> JiraText,
       subtype |-> Absent, thread_ts |-> 2],
      [ts |-> 4, user |-> "U2", text |-> JiraText \o <<"nl", "x">>,
       subtype |-> Absent, thread_ts |-> NoThreadTs],
      [ts |-> 5, user |-> "U2", text |-> <<"x">>,
       subtype |-> "channel_join", thread_ts |-> NoThreadTs] }

\* a page with has_more carries the cursor of the next page
HistoryResponses ==
    { [ok |-> TRUE, messages |-> b, has_more |-> h,
       next_cursor |-> IF h THEN "c1" ELSE NoCursor] :
        b \in {<<>>} \cup {<<m>> : m \in RawMessages}, h \in BOOLEAN }

\* raw messages of conversations.replies after the root
Reply7 == [ts |-> 7, user |-> "U2", text |-> <<"x", "sp">>, thread_ts |-> 2]
\* (a reply without a user key)
Reply8 == [ts |-> 8, text |-> <<"x">>, thread_ts |-> 2]

\* the root of the thread, as conversations.replies returns it first
ThreadRoot ==
    [ts |-> 2, user |-> "U2", text |-> <<"nl">> \o JiraText \o <<"sp">>, thread_ts |-> 2]

RepliesResponses ==
    { [ok |-> TRUE, messages |-> ms] :
        ms \in { <<>>, <<ThreadRoot>>, <<ThreadRoot, Reply7>>,
                 <<ThreadRoot, Reply8, Reply7>> } }

----------------------------------------------------------------------------
(* The user cache file, ~/.slackdown/users.json *)

\* json.dump with default=str: None is written as the string "None"
JsonValueAsStr(v) == <<"string", IF v = None THEN "None" ELSE v>>

\* JSON text of a name
JsonValue(v) == IF v = None THEN <<"null">> ELSE <<"string", v>>

\* the Python value of a JSON value
PyValue(j) == IF j = <<"null">> THEN None ELSE j[2]

\* json.dump of the users dict: its items, in key order
RECURSIVE dump_items(_, _)
dump_items(d, order) ==
    IF order = <<>> THEN <<>>
    ELSE IF Head(order) \in DOMAIN d
         THEN <<(<<Head(order), JsonValue(d[Head(order)])>>)>> \o dump_items(d, Tail(order))
         ELSE dump_items(d, Tail(order))

\* json.load of the items of an object
RECURSIVE load_items(_)
load_items(items) ==
    IF items = <<>> THEN EmptyDict
    ELSE LET last == items[Len(items)]
         IN  DictSet(load_items(SubSeq(items, 1, Len(items) - 1)), last[1], PyValue(last[2]))

\* no file at USER_DATA_PATH
NoFile == [state |-> "absent", keys |-> {}, users |-> <<>>]

\* a file that open() cannot read, a file that is not JSON, and JSON files
\* lacking a key
BrokenFiles ==
    { [state |-> "unreadable", keys |-> {}, users |-> <<>>],
      [state |-> "invalid_json", keys |-> {}, users |-> <<>>],
      [state |-> "json", keys |-> {"timestamp", "metadata"}, users |-> <<>>],
      [state |-> "json", keys |-> {"users", "metadata"},
       users |-> <<(<<"U1", <<"string", "alice">>>>)>>] }

\* save_users: the file it leaves (what is under its "timestamp" and
\* "metadata" keys is never read back by the program and is left out)
save_users(user_map) ==
    [state |-> "json", keys |-> {"users", "timestamp", "metadata"},
     users |-> dump_items(user_map, UserIdOrder)]

\* the body of load_users' try: the exception it runs into, or the dict
load_users_try(file) ==
    IF file.state = "absent" THEN [exc |-> "", found |-> FALSE, users |-> EmptyDict]
    ELSE IF file.state = "unreadable"
    THEN [exc |-> "OSError", found |-> FALSE, users |-> EmptyDict]
    ELSE IF file.state = "invalid_json"
    THEN [exc |-> "JSONDecodeError", found |-> FALSE, users |-> EmptyDict]
    ELSE IF "users" \notin file.keys \/ "timestamp" \notin file.keys
    THEN [exc |-> "KeyError", found |-> FALSE, users |-> EmptyDict]
    ELSE [exc |-> "", found |-> TRUE, users |-> load_items(file.users)]

\* load_users without its except clause
load_users_uncaught(file) == load_users_try(file)

\* load_users: except Exception swallows whatever the body raised;
\* found = FALSE is the return value (None, None)
load_users(file) ==
    LET r == load_users_try(file)
    IN  IF r.exc # "" THEN [exc |-> "", found |-> FALSE, users |-> EmptyDict] ELSE r

\* real_name, else name, else None
display_name(user) ==
    IF user.real_name # Absent THEN user.real_name
    ELSE IF user.name # Absent THEN user.name
    ELSE None

----------------------------------------------------------------------------
(* Transcript Builder *)

\* f"<@{user_id}>" when the id is not in the directory
resolve_user(user_id, user_map) == Get(user_map, user_id, "<@" \o user_id \o ">")

\* datetime.fromtimestamp(float(ts)).isoformat()
isoformat(ts) == <<"iso", ts>>

\* the entry structure_messages builds for a message, before its thread
entry_of(msg, user_map) ==
    [user |-> resolve_user(IF msg.user = Absent THEN "" ELSE msg.user, user_map),
     timestamp |-> isoformat(msg.ts),
     text |-> msg.text,
     thread |-> <<>>]

\* the message is in a thread, as its root or as a reply
is_in_thread(msg) == msg.thread_ts # NoThreadTs

\* 'thread_ts' in msg and msg['ts'] == msg['thread_ts']
is_thread_root(msg) == msg.thread_ts # NoThreadTs /\ msg.ts = msg.thread_ts

----------------------------------------------------------------------------
(* Text Formatter *)

MAX_MSG_LENGTH == 2000

\* JIRA_COMMENT_RE = r"@?.+ commented on OH-\d+ .+", over the text tokens
JIRA_COMMENT_RE ==
    << [q |-> "opt", c |-> "@"], [q |-> "plus", c |-> "dot"],
       [q |-> "one", c |-> "sp"], [q |-> "one", c |-> "C"],
       [q |-> "plus", c |-> "digit"], [q |-> "one", c |-> "sp"],
       [q |-> "plus", c |-> "dot"] >>

\* whether a character class of the pattern accepts a token
accepts(c, tok) ==
    IF c = "dot" THEN tok # "nl"
    ELSE IF c = "digit" THEN tok = "d"
    ELSE tok = c

\* re.fullmatch
RECURSIVE fullmatch(_, _)
fullmatch(re, s) ==
    IF re = <<>> THEN s = <<>>
    ELSE LET h == Head(re)
             step == s # <<>> /\ accepts(h.c, Head(s))
         IN  IF h.q = "one" THEN step /\ fullmatch(Tail(re), Tail(s))
             ELSE IF h.q = "opt"
             THEN fullmatch(Tail(re), s) \/ (step /\ fullmatch(Tail(re), Tail(s)))
             ELSE step /\ (fullmatch(Tail(re), Tail(s)) \/ fullmatch(re, Tail(s)))

\* the text alone decides
is_jira_comment_text(msg) ==
    fullmatch(JIRA_COMMENT_RE, strip(Get(msg, "text", <<>>)))

is_jira_comment_message(msg) ==
    /\ Get(msg, "user", None) = "Jira Cloud"
    /\ fullmatch(JIRA_COMMENT_RE, strip(Get(msg, "text", <<>>)))

\* a timestamp key that is not there
NoTimestamp == <<"None">>

format_timestamp(ts) ==
    IF ts = NoTimestamp THEN <<"unknown time">>
    ELSE <<"%Y-%m-%d %H:%M", ts[2]>>

\* str.replace(c, '\\' + c): every occurrence of the character c is replaced;
\* what it does to a text is what it does to its two halves, one after the
\* other (texts run to thousands of characters)
RECURSIVE replace_escaped(_, _)
replace_escaped(text, c) ==
    IF Len(text) = 0 THEN <<>>
    ELSE IF Len(text) = 1
         THEN IF text[1] = c THEN <<"\\", c>> ELSE <<text[1]>>
         ELSE LET half == Len(text) \div 2
              IN  replace_escaped(SubSeq(text, 1, half), c)
                    \o replace_escaped(SubSeq(text, half + 1, Len(text)), c)

\* the characters escape_md escapes, in the order of its replace calls
\* ("backtick" is the token of the backtick character)
Emphasis == << "*", "_", "backtick" >>

escape_md(text) ==
    replace_escaped(replace_escaped(replace_escaped(text, Emphasis[1]), Emphasis[2]),
                    Emphasis[3])

\* the text is cut when it has max_len characters or more
truncate_from(text, max_len) ==
    IF Len(text) < max_len THEN text
    ELSE SubSeq(text, 1, max_len) \o <<".", ".", ".">>

truncate(text, max_len) ==
    IF Len(text) <= max_len THEN text
    ELSE SubSeq(text, 1, max_len) \o <<".", ".", ".">>

\* str() of a value put into an f-string
str(v) == IF v = None THEN "None" ELSE v

\* the lines json_to_markdown appends
TitleLine == [kind |-> "title", user |-> "", time |-> <<>>, text |-> <<>>]
SeparatorLine == [kind |-> "separator", user |-> "", time |-> <<>>, text |-> <<>>]

body_line(kind, rec) ==
    [kind |-> kind,
     user |-> str(Get(rec, "user", "Unknown")),
     time |-> format_timestamp(Get(rec, "timestamp", NoTimestamp)),
     text |-> truncate(escape_md(strip(Get(rec, "text", <<>>))), MAX_MSG_LENGTH)]

RECURSIVE reply_lines(_)
reply_lines(thread) ==
    IF thread = <<>> THEN <<>>
    ELSE <<body_line("reply", Head(thread))>> \o reply_lines(Tail(thread))

RECURSIVE entry_lines(_, _)
entry_lines(data, filter_jira_comments) ==
    IF data = <<>> THEN <<>>
    ELSE LET entry == Head(data)
             rest == entry_lines(Tail(data), filter_jira_comments)
         IN  IF filter_jira_comments /\ is_jira_comment_message(entry)
             THEN rest
             ELSE <<body_line("entry", entry)>> \o reply_lines(Get(entry, "thread", <<>>))
                    \o <<SeparatorLine>> \o rest

json_to_markdown(data, filter_jira_comments) ==
    <<TitleLine>> \o entry_lines(data, filter_jira_comments)

----------------------------------------------------------------------------
(* State *)

VARIABLES
    pc,                 \* where main() is
    args,               \* the options of the command line main() has read so
                        \* far (an option keeps its value for the whole run and
                        \* main() reads each once: it is drawn at that read)
    cache,              \* the file at USER_DATA_PATH
    saved,              \* the user_map the last save_users was called with, when
                        \* the cache file is the one that call wrote
    channel_name,       \* main: channel_name
    user_map,           \* fetch_user_map / main: user_map
    cursor,             \* the cursor of the listing under way
    retry_count,        \* the retry_count of the call under way
                        \* (cursor and retry_count are locals: they are back
                        \* at their initial values once the call is over)
    messages,           \* fetch_channel_messages / main: messages
    pages,              \* the history listing so far: "none", pages only, the
                        \* last one with has_more ("more") or without ("last"),
                        \* or a rate limited request ("throttled")
    idx,                \* structure_messages: position in messages
    structured,         \* structure_messages / main: structured
    json_file,          \* the file at args.json, as this run wrote it
    markdown,           \* main: markdown
    output_file,        \* the file at output_filename, as this run wrote it
    stdout,             \* what the run printed (the kinds of line)
    exc,                \* the exception main() caught
    calls,              \* the API methods this run has requested
    returned,           \* the functions that have returned to main()
    throttle            \* what check_response did in the step just taken:
                        \* the retry_after of a ratelimited response (0: the
                        \* key is absent) and the seconds it slept

vars ==
    << pc, args, cache, saved, channel_name, user_map, cursor, retry_count,
       messages, pages, idx, structured, json_file, markdown,
       output_file, stdout, exc, calls, returned, throttle >>

\* a file this run has not written
NotWritten == [written |-> FALSE, content |-> <<>>]

NoExc == [origin |-> "", message |-> ""]

\* the command line: channel_id is ChannelId, --output is not given,
\* and no option has been read yet
NoArgs == [k \in {} |-> FALSE]

\* the cache file was not written by save_users
NotSaved == [by_save_users |-> FALSE, user_map |-> EmptyDict]

\* the cache file is the one save_users(user_map) wrote
SavedAs(map) == [by_save_users |-> TRUE, user_map |-> map]

\* the user_maps of the cache files an earlier run has left
InitUserMaps == { [k \in {"U1"} |-> "alice"], EmptyDict }

\* the state in which main() is entered, the cache file being what it is
Entry(file, origin) ==
    /\ pc = "get_channel_name"
    /\ args = NoArgs
    /\ cache = file
    /\ saved = origin
    /\ channel_name = ""
    /\ user_map = EmptyDict
    /\ cursor = NoCursor
    /\ retry_count = 0
    /\ messages = <<>>
    /\ pages = "none"
    /\ idx = 1
    /\ structured = <<>>
    /\ json_file = NotWritten
    /\ markdown = <<>>
    /\ output_file = NotWritten
    /\ stdout = {}
    /\ exc = NoExc
    /\ calls = {}
    /\ returned = {}
    /\ throttle = NoThrottle

Init ==
    \/ \E file \in {NoFile} \cup BrokenFiles : Entry(file, NotSaved)
    \/ \E map \in InitUserMaps : Entry(save_users(map), SavedAs(map))

----------------------------------------------------------------------------
(* main: try / except Exception *)

\* an except clause that saves what has been rendered so far
RaiseAndWritePartial(origin, message) ==
    /\ pc' = "failed"
    /\ exc' = [origin |-> origin, message |-> message]
    /\ output_file' = [written |-> TRUE, content |-> markdown]
    /\ UNCHANGED <<json_file, markdown>>

\* an exception leaves the try block: main prints it and ends
Raise(origin, message) ==
    /\ pc' = "failed"
    /\ exc' = [origin |-> origin, message |-> message]
    /\ UNCHANGED <<json_file, markdown, output_file>>

\* a function returns to main, which goes on to its next statement
Return(fn, next) ==
    /\ pc' = next
    /\ returned' = returned \cup {fn}

----------------------------------------------------------------------------
(* get_channel_name *)

GetChannelName ==
    /\ pc = "get_channel_name"
    /\ \E data \in InfoResponses \cup Failures :
         LET r == check_response(data)
         IN  /\ calls' = calls \cup {"conversations.info"}
             /\ throttle' = Throttle(data)
             /\ IF r = "raise"
                THEN /\ Raise("get_channel_name", data.error)
                     /\ UNCHANGED <<channel_name, retry_count, stdout, returned>>
                ELSE IF r = "true"
                THEN /\ channel_name' = IF data.name = Absent THEN ChannelId ELSE data.name
                     /\ Return("get_channel_name", "fetch_user_map")
                     /\ retry_count' = 0
                     /\ UNCHANGED <<stdout, exc, json_file, markdown, output_file>>
                ELSE IF retry_count + 1 >= info_max_retries
                THEN /\ channel_name' = ChannelId
                     /\ stdout' = stdout \cup {"info_failed"}
                     /\ Return("get_channel_name", "fetch_user_map")
                     /\ retry_count' = 0
                     /\ UNCHANGED <<exc, json_file, markdown, output_file>>
                ELSE /\ retry_count' = retry_count + 1
                     /\ UNCHANGED <<pc, channel_name, stdout, exc, returned,
                                    json_file, markdown, output_file>>
    /\ UNCHANGED <<args, cache, saved, user_map, cursor, messages, pages, idx,
                   structured>>

----------------------------------------------------------------------------
(* fetch_user_map *)

\* for user in users: user_map[user["id"]] = ...
RECURSIVE add_members(_, _)
add_members(map, users) ==
    IF users = <<>> THEN map
    ELSE add_members(DictSet(map, Head(users).id, display_name(Head(users))), Tail(users))

\* the listing is given up with what was fetched so far saved
ListingFailedSavingPartial(message) ==
    /\ Raise("fetch_user_map", message)
    /\ cache' = save_users(user_map)
    /\ saved' = SavedAs(user_map)

\* an exception leaves fetch_user_map in the middle of the listing: the
\* statements after the while loop, save_users among them, are not run
ListingFailed(message) ==
    /\ Raise("fetch_user_map", message)
    /\ UNCHANGED <<cache, saved>>

\* the first lines of fetch_user_map: the cache, unless force_refresh
FetchUserMap ==
    /\ pc = "fetch_user_map"
    /\ \E force_refresh \in BOOLEAN :
         LET r == load_users(cache)
         IN  /\ args' = DictSet(args, "refresh_users", force_refresh)
             /\ throttle' = NoThrottle
             /\ IF ~force_refresh /\ r.exc # ""
                THEN /\ Raise("load_users", r.exc)
                     /\ UNCHANGED <<user_map, stdout, returned>>
                ELSE IF ~force_refresh /\ r.found /\ DOMAIN r.users # {}
                THEN /\ user_map' = r.users
                     /\ stdout' = stdout \cup {"cached"}
                     /\ Return("fetch_user_map", "fetch_channel_messages")
                     /\ UNCHANGED <<exc, json_file, markdown, output_file>>
                ELSE /\ pc' = "users_list"
                     /\ user_map' = EmptyDict
                     /\ UNCHANGED <<stdout, exc, returned, json_file, markdown,
                                    output_file>>
    /\ UNCHANGED <<cache, saved, channel_name, cursor, retry_count,
                   messages, pages, idx, structured, calls>>

\* one request of users.list and what the loops do with the response
UsersList ==
    /\ pc = "users_list"
    /\ \E data \in UsersResponses \cup Failures :
         LET r == check_response(data)
         IN  /\ calls' = calls \cup {"users.list"}
             /\ throttle' = Throttle(data)
             /\ IF r = "raise"
                THEN /\ ListingFailed(data.error)
                     /\ UNCHANGED <<user_map, cursor, retry_count, stdout, returned>>
                ELSE IF r = "false"
                THEN IF retry_count + 1 >= users_max_retries
                     THEN /\ stdout' = stdout \cup {"users_failed"}
                          /\ ListingFailed("Maximum retries exceeded")
                          /\ UNCHANGED <<user_map, cursor, retry_count, returned>>
                     ELSE /\ retry_count' = retry_count + 1
                          /\ UNCHANGED <<pc, cache, saved, user_map, cursor, stdout,
                                         exc, returned, json_file, markdown, output_file>>
                ELSE /\ user_map' = add_members(user_map, data.members)
                     /\ retry_count' = 0
                     /\ UNCHANGED <<exc, json_file, markdown, output_file>>
                     /\ IF data.next_cursor # NoCursor
                        THEN /\ cursor' = data.next_cursor
                             /\ UNCHANGED <<pc, cache, saved, stdout, returned>>
                        ELSE /\ cursor' = NoCursor
                             /\ Return("fetch_user_map", "fetch_channel_messages")
                             /\ IF DOMAIN user_map' = {}
                                THEN /\ stdout' = stdout \cup {"no_users"}
                                     /\ UNCHANGED <<cache, saved>>
                                ELSE /\ cache' = save_users(user_map')
                                     /\ saved' = SavedAs(user_map')
                                     /\ stdout' = stdout \cup {"saved"}
    /\ UNCHANGED <<args, channel_name, messages, pages, idx,
                   structured>>

----------------------------------------------------------------------------
(* fetch_channel_messages *)

\* one request of conversations.history and what the loops do with the
\* response.  After a page the inner loop is left (success, or the break
\* on has_more); the outer loop is left only when success is False.
FetchChannelMessages ==
    /\ pc = "fetch_channel_messages"
    /\ \E data \in HistoryResponses \cup Failures :
         LET r == check_response(data)
         IN  /\ calls' = calls \cup {"conversations.history"}
             /\ throttle' = Throttle(data)
             /\ IF r = "raise"
                THEN /\ Raise("fetch_channel_messages", data.error)
                     /\ UNCHANGED <<messages, cursor, retry_count, pages, stdout,
                                    returned>>
                ELSE IF r = "true"
                THEN /\ Len(messages) + Len(data.messages) <= MaxMsgs
                     /\ messages' = messages \o data.messages
                     /\ cursor' = data.next_cursor
                     /\ pages' = IF pages = "throttled" THEN pages
                                 ELSE IF data.has_more THEN "more" ELSE "last"
                     /\ retry_count' = 0
                     /\ UNCHANGED <<pc, stdout, exc, returned, json_file, markdown,
                                    output_file>>
                ELSE /\ pages' = "throttled"
                     /\ UNCHANGED <<messages, exc, json_file, markdown, output_file>>
                     /\ IF retry_count + 1 >= history_max_retries
                        THEN /\ stdout' = stdout \cup {"history_failed"}
                                    \cup (IF messages = <<>> THEN {"no_messages"} ELSE {})
                             /\ retry_count' = 0
                             /\ cursor' = NoCursor
                             /\ Return("fetch_channel_messages", "structure_messages")
                        ELSE /\ retry_count' = retry_count + 1
                             /\ UNCHANGED <<pc, cursor, stdout, returned>>
    /\ UNCHANGED <<args, cache, saved, channel_name, user_map, idx, structured>>

----------------------------------------------------------------------------
(* structure_messages and fetch_thread *)

\* one turn of the for loop, up to the call of fetch_thread; the return
\* when the loop is over
StructureMessages ==
    /\ pc = "structure_messages"
    /\ IF idx > Len(messages)
       THEN /\ Return("structure_messages", "json_dump")
            /\ UNCHANGED <<idx, structured>>
       ELSE LET msg == messages[idx]
            IN  IF msg.subtype = "channel_join"
                THEN /\ idx' = idx + 1
                     /\ UNCHANGED <<pc, structured, returned>>
                ELSE IF is_thread_root(msg)
                THEN /\ pc' = "fetch_thread"
                     /\ UNCHANGED <<idx, structured, returned>>
                ELSE /\ structured' = Append(structured, entry_of(msg, user_map))
                     /\ idx' = idx + 1
                     /\ UNCHANGED <<pc, returned>>
    /\ throttle' = NoThrottle
    /\ UNCHANGED <<args, cache, saved, channel_name, user_map, cursor,
                   retry_count, messages, pages, json_file, markdown,
                   output_file, stdout, exc, calls>>

\* structured.append(entry), entry['thread'] being what fetch_thread returned
AppendEntry(msg, replies) ==
    /\ structured' = Append(structured, [entry_of(msg, user_map) EXCEPT !.thread = replies])
    /\ idx' = idx + 1
    /\ pc' = "structure_messages"
    /\ retry_count' = 0

\* one request of conversations.replies for the root at idx
FetchThread ==
    /\ pc = "fetch_thread"
    /\ \E data \in RepliesResponses \cup Failures :
         LET r == check_response(data)
             msg == messages[idx]
         IN  /\ calls' = calls \cup {"conversations.replies"}
             /\ throttle' = Throttle(data)
             /\ IF r = "raise"
                THEN /\ Raise("fetch_thread", data.error)
                     /\ UNCHANGED <<idx, structured, retry_count, stdout>>
                ELSE IF r = "true"
                THEN /\ AppendEntry(msg, Slice1(data.messages))
                     /\ UNCHANGED <<stdout, exc, json_file, markdown, output_file>>
                ELSE IF retry_count + 1 >= thread_max_retries
                THEN /\ stdout' = stdout \cup {"thread_skipped"}
                     /\ AppendEntry(msg, <<>>)
                     /\ UNCHANGED <<exc, json_file, markdown, output_file>>
                ELSE /\ retry_count' = retry_count + 1
                     /\ UNCHANGED <<pc, idx, structured, stdout, exc, json_file,
                                    markdown, output_file>>
    /\ UNCHANGED <<args, cache, saved, channel_name, user_map, cursor, messages,
                   pages, returned>>

----------------------------------------------------------------------------
(* main, after structure_messages *)

\* if args.json: json.dump(list(reversed(structured)), f)
SaveJson ==
    /\ pc = "json_dump"
    /\ \E json \in BOOLEAN :
         /\ args' = DictSet(args, "json", json)
         /\ json_file' = IF json
                         THEN [written |-> TRUE, content |-> reversed(structured)]
                         ELSE json_file
    /\ pc' = "json_to_markdown"
    /\ throttle' = NoThrottle
    /\ UNCHANGED <<cache, saved, channel_name, user_map, cursor,
                   retry_count, messages, pages, idx, structured,
                   markdown, output_file, stdout, exc, calls, returned>>

\* markdown = json_to_markdown(list(reversed(structured)), ...)
JsonToMarkdown ==
    /\ pc = "json_to_markdown"
    /\ \E filter_jira_comments \in BOOLEAN :
         /\ args' = DictSet(args, "filter_jira_comments", filter_jira_comments)
         /\ markdown' = json_to_markdown(reversed(structured), filter_jira_comments)
    /\ Return("json_to_markdown", "write_output")
    /\ throttle' = NoThrottle
    /\ UNCHANGED <<cache, saved, channel_name, user_map, cursor,
                   retry_count, messages, pages, idx, structured,
                   json_file, output_file, stdout, exc, calls>>

\* with open(output_filename, 'w') as f: f.write(markdown)
WriteOutput ==
    /\ pc = "write_output"
    /\ output_file' = [written |-> TRUE, content |-> markdown]
    /\ stdout' = stdout \cup {"complete"}
    /\ pc' = "done"
    /\ throttle' = NoThrottle
    /\ UNCHANGED <<args, cache, saved, channel_name, user_map, cursor,
                   retry_count, messages, pages, idx, structured,
                   json_file, markdown, exc, calls, returned>>

\* the program is run again; only the cache file is left of the run before
NewRun ==
    /\ pc \in {"done", "failed"}
    /\ pc' = "get_channel_name"
    /\ args' = NoArgs
    /\ channel_name' = ""
    /\ user_map' = EmptyDict
    /\ cursor' = NoCursor
    /\ retry_count' = 0
    /\ messages' = <<>>
    /\ pages' = "none"
    /\ idx' = 1
    /\ structured' = <<>>
    /\ json_file' = NotWritten
    /\ markdown' = <<>>
    /\ output_file' = NotWritten
    /\ stdout' = {}
    /\ exc' = NoExc
    /\ calls' = {}
    /\ returned' = {}
    /\ throttle' = NoThrottle
    /\ UNCHANGED <<cache, saved>>

Next ==
    \/ GetChannelName
    \/ FetchUserMap
    \/ UsersList
    \/ FetchChannelMessages
    \/ StructureMessages
    \/ FetchThread
    \/ SaveJson
    \/ JsonToMarkdown
    \/ WriteOutput
    \/ NewRun

Spec == Init /\ [][Next]_vars

----------------------------------------------------------------------------
(* json_to_markdown over texts of every kind *)

\* the characters of the short texts
TextChars == {"x", "*", "_", "backtick", "\\"}

\* every text of at most MaxTextLen characters
ShortTexts == UNION { [1..n -> TextChars] : n \in 0..MaxTextLen }

\* a text of n characters "x", but for the character c at position p
LongText(n, p, c) == [i \in 1..n |-> IF i = p THEN c ELSE "x"]

\* texts about as long as MAX_MSG_LENGTH
LongTexts ==
    { LongText(MAX_MSG_LENGTH, 0, "x"),
      LongText(MAX_MSG_LENGTH - 1, 1, "_"),
      LongText(MAX_MSG_LENGTH + 1, 0, "x"),
      LongText(MAX_MSG_LENGTH + 1, MAX_MSG_LENGTH, "*") }

Texts == ShortTexts \cup LongTexts

\* a thread root of the history with the text t, and its one reply with
\* the text u
RootWith(t) ==
    [ts |-> 2, user |-> "U1", text |-> t, subtype |-> Absent, thread_ts |-> 2]
ReplyWith(u) == [ts |-> 7, user |-> "U2", text |-> u, thread_ts |-> 2]

\* main() is about to call json_to_markdown: the directory came from the
\* cache, the history was one message, a thread root with one reply, and
\* --json was not given
FormatterInit ==
    \E t \in Texts, u \in Texts :
        LET map == [k \in {"U1"} |-> "alice"]
        IN  /\ pc = "json_to_markdown"
            /\ args = DictSet(DictSet(NoArgs, "refresh_users", FALSE), "json", FALSE)
            /\ cache = save_users(map)
            /\ saved = SavedAs(map)
            /\ channel_name = "general"
            /\ user_map = map
            /\ cursor = NoCursor
            /\ retry_count = 0
            /\ messages = <<RootWith(t)>>
            /\ pages = "throttled"
            /\ idx = 2
            /\ structured =
                  << [entry_of(RootWith(t), map) EXCEPT !.thread = <<ReplyWith(u)>>] >>
            /\ json_file = NotWritten
            /\ markdown = <<>>
            /\ output_file = NotWritten
            /\ stdout = {"cached", "history_failed"}
            /\ exc = NoExc
            /\ calls = {"conversations.info", "conversations.history",
                        "conversations.replies"}
            /\ returned = {"get_channel_name", "fetch_user_map",
                           "fetch_channel_messages", "structure_messages"}
            /\ throttle = NoThrottle

FormatterNext == JsonToMarkdown \/ WriteOutput

FormatterSpec == FormatterInit /\ [][FormatterNext]_vars

----------------------------------------------------------------------------
(* Claims *)

\* C1: once every history request so far has succeeded and the last page
\* came with has_more = false (pages = "last"), fetch_channel_messages
\* issues no further conversations.history request: no step of it follows.
C1_NoRequestAfterLastPage == [][pages = "last" => ~FetchChannelMessages]_vars

\* C2: a failing response to conversations.replies, whatever its error
\* code, never ends the run: main() never catches an exception that came
\* out of fetch_thread.
C2_ThreadFailureNeverAborts == exc.origin # "fetch_thread"

\* C3: when a history page has failed on all 5 attempts, or a users.list
\* page on all 3, the run is aborted and the output file is not written.
C3_RetryExhaustionIsFatal ==
    \A line \in {"history_failed", "users_failed"} :
        line \in stdout => pc = "failed" /\ ~output_file.written

\* C4: a failing response to conversations.info, whatever its error code,
\* never ends the run: main() never catches an exception that came out of
\* get_channel_name.
C4_ChannelNameIsBestEffort == exc.origin # "get_channel_name"

\* the options main() has read
force_refresh_given == Get(args, "refresh_users", FALSE)
refresh_read == "refresh_users" \in DOMAIN args

\* C5: when the cache file is the one save_users(m) wrote before this run
\* (the run has not saved it itself), m not empty, and
\* fetch_user_map(force_refresh=False) has returned, user_map is exactly m
\* and the run has sent no users.list request.
C5_CacheRoundTrip ==
    ( /\ "fetch_user_map" \in returned
      /\ refresh_read /\ ~force_refresh_given
      /\ saved.by_save_users
      /\ DOMAIN saved.user_map # {}
      /\ "saved" \notin stdout )
    => user_map = saved.user_map /\ "users.list" \notin calls

\* a run that found in the cache what an earlier run fetched and saved:
\* two users, one of them with the name None (JSON null)
C5_Witness ==
    /\ "cached" \in stdout
    /\ DOMAIN user_map = {"U1", "U2"}
    /\ user_map["U1"] = None
    /\ user_map["U2"] = "Jira Cloud"

\* the functions main() calls before it opens the output file
BeforeWrite ==
    { "get_channel_name", "fetch_user_map", "fetch_channel_messages",
      "structure_messages", "json_to_markdown" }

\* C7: the output file is written only when get_channel_name,
\* fetch_user_map, fetch_channel_messages, structure_messages and
\* json_to_markdown have all returned and nothing was raised; a run in
\* which one of them raised ends without the output file being written.
C7_WriteAfterRender ==
    /\ output_file.written => BeforeWrite \subseteq returned /\ exc = NoExc
    /\ pc = "failed" => ~output_file.written

\* a run that raised in structure_messages, after the messages were fetched
C7_Witness ==
    /\ pc = "failed"
    /\ exc.origin = "fetch_thread"
    /\ "fetch_channel_messages" \in returned
    /\ ~output_file.written

\* the states of the cache file C8 is about
UnusableFiles == {NoFile} \cup BrokenFiles

\* C8: with the cache file absent, unreadable, not JSON, or JSON without
\* its users or timestamp key, the first step of fetch_user_map raises
\* nothing and goes on to the remote listing.
C8_LoadNeverRaises ==
    [][(pc = "fetch_user_map" /\ cache \in UnusableFiles)
         => (pc' = "users_list" /\ exc' = NoExc)]_vars

\* fetch_user_map(force_refresh=False) is listing the users because the
\* cache file lacks its timestamp key
C8_Witness ==
    /\ pc = "users_list"
    /\ refresh_read /\ ~force_refresh_given
    /\ cache.state = "json"
    /\ "timestamp" \notin cache.keys

\* C9: the user field of every entry structure_messages has built is
\* neither None nor the empty string.
C9_UserNeverEmptyOrNull ==
    \A i \in 1..Len(structured) : structured[i].user \notin {None, ""}

----------------------------------------------------------------------------
(* The document, read back *)

filter_given == Get(args, "filter_jira_comments", FALSE)

\* "<anything>", read as any run of characters
AnyRun(t) == TRUE

\* "<anything>", read as a run of one character or more with no newline
LineRun(t) == Len(t) >= 1 /\ \A k \in 1..Len(t) : t[k] # "nl"

\* s is  <anything> commented on OH-<digits> <anything>
NoticePattern(s, Run(_)) ==
    \E i \in 0..Len(s) : \E j \in (i + 3)..(Len(s) - 1) :
        /\ Run(SubSeq(s, 1, i))
        /\ s[i + 1] = "sp" /\ s[i + 2] = "C"
        /\ \A k \in (i + 3)..j : s[k] = "d"
        /\ s[j + 1] = "sp"
        /\ Run(SubSeq(s, j + 2, Len(s)))

\* the entry is one the document leaves out
Omitted(entry, Run(_)) ==
    /\ filter_given
    /\ entry.user = "Jira Cloud"
    /\ NoticePattern(strip(entry.text), Run)

RECURSIVE Replies(_)
Replies(entries) ==
    IF entries = <<>> THEN 0 ELSE Len(Head(entries).thread) + Replies(Tail(entries))

Lines(doc, kind) == Len(SelectSeq(doc, LAMBDA line : line.kind = kind))

\* an entry of structured is left out of the rendered document exactly when
\* Omitted says so, with its replies and its separator
OmitsExactly(Run(_)) ==
    LET kept == SelectSeq(structured, LAMBDA e : ~Omitted(e, Run))
    IN  /\ \A i \in 1..Len(structured) :
              Omitted(structured[i], Run)
                <=> ~\E k \in 1..Len(markdown) :
                        /\ markdown[k].kind = "entry"
                        /\ markdown[k].time[2] = structured[i].timestamp[2]
        /\ Lines(markdown, "entry") = Len(kept)
        /\ Lines(markdown, "separator") = Len(kept)
        /\ Lines(markdown, "reply") = Replies(kept)

\* C10 as amended: with filter_jira_comments, json_to_markdown leaves out an
\* entry, its replies and its separator exactly when its user is "Jira
\* Cloud" and its stripped text is  <anything> commented on OH-<digits>
\* <anything>, each <anything> being one character or more and holding no
\* newline; without the flag every entry is rendered.
C10_FilterOmitsJiraComments == "json_to_markdown" \in returned => OmitsExactly(LineRun)

\* C10 as stated: <anything> is any text
C10_FilterOmitsAnyNotice == "json_to_markdown" \in returned => OmitsExactly(AnyRun)

\* rendered with the flag: a thread root by "Jira Cloud" is left out with
\* its replies, an entry with the same kind of text by another author is not
C10_Witness ==
    /\ "json_to_markdown" \in returned
    /\ filter_given
    /\ \E i \in 1..Len(structured) :
          /\ Omitted(structured[i], LineRun)
          /\ structured[i].thread # <<>>
    /\ \E i \in 1..Len(structured) :
          /\ structured[i].user # "Jira Cloud"
          /\ NoticePattern(strip(structured[i].text), LineRun)

\* the messages structure_messages does not skip
NonJoin == SelectSeq(messages, LAMBDA m : m.subtype # "channel_join")

\* line of the document at which the i-th block starts
RECURSIVE BlockStart(_, _)
BlockStart(chron, i) ==
    IF i = 1 THEN 2 ELSE BlockStart(chron, i - 1) + Len(chron[i - 1].thread) + 2

\* the name json_to_markdown prints for a reply
ReplyUser(reply) == IF "user" \in DOMAIN reply THEN reply.user ELSE "Unknown"

\* C6: the entries are the fetched messages that are no channel_join, in
\* the fetched order; the JSON dump lists them in the reverse order; the
\* document holds, after its title and in the reverse of the fetched order,
\* one block per entry not filtered out: the entry line, its replies in the
\* order of the API, a separator.
C6_ReverseOfFetchedOrder ==
    /\ "structure_messages" \in returned =>
          /\ Len(structured) = Len(NonJoin)
          /\ \A i \in 1..Len(structured) : structured[i].timestamp[2] = NonJoin[i].ts
    /\ json_file.written =>
          /\ Len(json_file.content) = Len(structured)
          /\ \A i \in 1..Len(structured) :
                json_file.content[i] = structured[Len(structured) + 1 - i]
    /\ output_file.written =>
          LET doc == output_file.content
              kept == SelectSeq(structured, LAMBDA e : ~Omitted(e, LineRun))
              n == Len(kept)
              chron == [i \in 1..n |-> kept[n + 1 - i]]
          IN  /\ Len(doc) = 1 + 2 * n + Replies(kept)
              /\ \A i \in 1..n :
                    LET p == BlockStart(chron, i)
                        thread == chron[i].thread
                    IN  /\ doc[p].kind = "entry"
                        /\ doc[p].time[2] = chron[i].timestamp[2]
                        /\ \A r \in 1..Len(thread) :
                              /\ doc[p + r].kind = "reply"
                              /\ doc[p + r].user = ReplyUser(thread[r])
                        /\ doc[p + Len(thread) + 1].kind = "separator"

\* two messages delivered newest first, the older one with one reply:
\* entry, reply, separator, entry, separator
C6_Witness ==
    /\ output_file.written
    /\ json_file.written
    /\ Len(messages) = 2
    /\ messages[1].ts > messages[2].ts
    /\ Len(output_file.content) = 6
    /\ output_file.content[2].kind = "entry"
    /\ output_file.content[3].kind = "reply"
    /\ output_file.content[4].kind = "separator"
    /\ output_file.content[5].kind = "entry"
    /\ output_file.content[6].kind = "separator"
    /\ output_file.content[2].time[2] < output_file.content[5].time[2]

----------------------------------------------------------------------------
(* The bodies json_to_markdown renders *)

\* the texts json_to_markdown was given and the bodies it made of them:
\* those of the first entry of the document and of its first reply
Bodies ==
    IF "json_to_markdown" \notin returned \/ Len(markdown) < 3 THEN {}
    ELSE LET entry == structured[Len(structured)]
         IN  { [source |-> entry.text, body |-> markdown[2].text] }
               \cup (IF entry.thread = <<>> THEN {}
                     ELSE { [source |-> entry.thread[1].text, body |-> markdown[3].text] })

EmphasisChars == {"*", "_", "backtick"}

\* every *, _ and backtick of the body has exactly one backslash before it
EachEscapedOnce(body) ==
    \A k \in 1..Len(body) :
        body[k] \in EmphasisChars =>
            /\ k >= 2 /\ body[k - 1] = "\\"
            /\ k >= 3 => body[k - 2] # "\\"

\* every backslash of the body has a *, _ or backtick after it
NoDanglingBackslash(body) ==
    \A k \in 1..Len(body) :
        body[k] = "\\" => k < Len(body) /\ body[k + 1] \in EmphasisChars

HasNoBackslash(text) == \A k \in 1..Len(text) : text[k] # "\\"

\* C11: in every body json_to_markdown renders, each *, _ and backtick has
\* exactly one backslash before it, and (the text having no backslash of
\* its own, so that every backslash of the body was inserted) every
\* backslash is followed by the character it escapes, truncated or not.
C11_EscapedOnceEvenTruncated ==
    \A b \in Bodies :
        /\ EachEscapedOnce(b.body)
        /\ HasNoBackslash(b.source) => NoDanglingBackslash(b.body)

\* C12: the body is the escaped text itself when that has at most 2000
\* characters (2000 included), and otherwise its first 2000 characters
\* followed by "...".
C12_TruncateAt2000 ==
    \A b \in Bodies :
        LET text == escape_md(strip(b.source))
        IN  /\ Len(text) <= 2000 => b.body = text
            /\ Len(text) > 2000 =>
                  /\ Len(b.body) = 2003
                  /\ \A k \in 1..2000 : b.body[k] = text[k]
                  /\ \A k \in 2001..2003 : b.body[k] = "."

\* an entry whose escaped text has exactly 2000 characters, rendered as it
\* is, with a reply of 2001 characters, cut
C12_Witness ==
    /\ output_file.written
    /\ Len(output_file.content) = 4
    /\ Len(output_file.content[2].text) = 2000
    /\ output_file.content[2].text[1] = "\\"
    /\ Len(structured[1].thread[1].text) = 2001
    /\ Len(output_file.content[3].text) = 2003

----------------------------------------------------------------------------
(* Threads *)

\* the message has a thread_ts and it is its own ts
OwnRoot(m) == m.thread_ts # NoThreadTs /\ m.thread_ts = m.ts

\* what conversations.replies can deliver after the root
RepliesAfterRoot ==
    { SubSeq(r.messages, 2, Len(r.messages)) : r \in RepliesResponses }

\* C13: structure_messages goes to fetch_thread for a message exactly when
\* its ts is its thread_ts, and the entry it then appends carries replies
\* as conversations.replies delivers them (none when the thread is
\* skipped); the entry of any other message has an empty thread, and as
\* long as no message looked at is its own root no conversations.replies
\* request has been sent.
C13_ThreadsOfRootsOnly ==
    /\ [](/\ \A i \in 1..Len(structured) :
                ~OwnRoot(NonJoin[i]) => structured[i].thread = <<>>
          /\ pc = "fetch_thread" => OwnRoot(messages[idx])
          /\ ( (pc \in {"structure_messages", "fetch_thread"}
                  /\ "conversations.replies" \in calls)
                => \E i \in 1..idx : i <= Len(messages) /\ OwnRoot(messages[i]) ))
    /\ [][/\ ( (pc = "structure_messages" /\ idx <= Len(messages)
                   /\ messages[idx].subtype # "channel_join")
                 => (OwnRoot(messages[idx]) <=> pc' = "fetch_thread") )
           /\ ( (pc = "fetch_thread" /\ pc' = "structure_messages")
                 => /\ Len(structured') = Len(structured) + 1
                    /\ structured'[Len(structured')].thread
                          \in RepliesAfterRoot \cup {<<>>}
                    /\ structured'[Len(structured')].timestamp[2]
                          = messages[idx].ts )]_vars

\* a root with its two replies, then a message of the same thread that is
\* not its root, with none
C13_Witness ==
    /\ Len(structured) = 2
    /\ OwnRoot(messages[1])
    /\ Len(structured[1].thread) = 2
    /\ messages[2].thread_ts \notin {NoThreadTs, messages[2].ts}
    /\ structured[2].thread = <<>>
    /\ "conversations.replies" \in calls

\* C14: no entry of structured is made of a message whose thread_ts is
\* not its own ts.
C14_RepliesNeverTopLevel ==
    \A i \in 1..Len(structured) :
        NonJoin[i].thread_ts \in {NoThreadTs, NonJoin[i].ts}

\* the ids of the workspace's users
UserIds == { m.id : m \in Members }

\* C15: every reply under an entry has a timestamp field and a user field
\* that is a resolved name, not an id, and the document prints no reply
\* with "unknown time".
C15_RepliesAreEntries ==
    /\ \A i \in 1..Len(structured) : \A k \in 1..Len(structured[i].thread) :
          LET reply == structured[i].thread[k]
          IN  /\ "timestamp" \in DOMAIN reply
              /\ "user" \in DOMAIN reply => reply.user \notin UserIds
    /\ \A k \in 1..Len(markdown) :
          markdown[k].kind = "reply" => markdown[k].time # <<"unknown time">>

----------------------------------------------------------------------------
(* The cache and the listing of the users *)

\* C16: when fetch_user_map has returned after listing the users (not
\* from the cache), the cache file holds exactly the user_map it returned,
\* an empty one included.
C16_RefreshOverwritesCache ==
    ("fetch_user_map" \in returned /\ "cached" \notin stdout)
    => /\ load_users(cache).found
       /\ load_users(cache).users = user_map

\* C20: the cache file changes in no step of a run but the one in which
\* the listing of the users ends without an exception; a run that the
\* listing has ended with an exception has not saved the users.
C20_FailedRefreshKeepsCache ==
    /\ [](exc.origin = "fetch_user_map" => "saved" \notin stdout)
    /\ [][(cache' # cache \/ saved' # saved)
            => (pc = "users_list" /\ pc' = "fetch_channel_messages"
                  /\ exc' = NoExc)]_vars

\* the listing failed on its second page, after a user the cache file
\* does not have was fetched, and the file is as the run found it
C20_Witness ==
    /\ pc = "failed"
    /\ exc.origin = "fetch_user_map"
    /\ cursor # NoCursor
    /\ DOMAIN user_map = {"U2"}
    /\ saved = SavedAs([k \in {"U1"} |-> "alice"])
    /\ cache = save_users(saved.user_map)

----------------------------------------------------------------------------
(* Rate limits and retries *)

\* the lines printed when a call is given up
GaveUp == {"info_failed", "users_failed", "history_failed", "thread_skipped"}

\* C17: no call is ever given up because of ratelimited responses (the
\* only responses after which a call is tried again).
C17_ThrottleNeverGivesUp == stdout \cap GaveUp = {}

\* C18: when the response of the step just taken was ratelimited, the
\* process slept the retry_after of that response, 1 second when it
\* carried none, within that step, so before any other request.
C18_SleepsRetryAfter ==
    throttle.limited =>
        throttle.slept = IF throttle.retry_after = 0 THEN 1 ELSE throttle.retry_after

\* the second attempt of a thread's replies is about to be made, after a
\* ratelimited response without retry_after and a sleep of 1 second
C18_Witness ==
    /\ pc = "fetch_thread"
    /\ retry_count = 1
    /\ throttle = [limited |-> TRUE, retry_after |-> 0, slept |-> 1]

\* C19: the requests of the call under way that have failed are fewer than
\* 3 for a users.list page, conversations.info and conversations.replies,
\* fewer than 5 for a history page: with the one to come, at most 3 and 5.
C19_RetriesBounded ==
    /\ pc \in {"get_channel_name", "users_list", "fetch_thread"} => retry_count + 1 <= 3
    /\ pc = "fetch_channel_messages" => retry_count + 1 <= 5

\* the fifth attempt of the second history page is about to be made
C19_Witness ==
    /\ pc = "fetch_channel_messages"
    /\ retry_count = 4
    /\ Len(messages) = 1
    /\ cursor # NoCursor

====
